---- MODULE Spec2Model ----
(***************************************************************************)
(* Tina Nova Defense: the simulation core of                                *)
(* src/src/components/TinaNovaDefense.tsx as a state machine.               *)
(*                                                                         *)
(* Units.  Time is in milliseconds.  Positions are whole play-field units  *)
(* (the floats of the source are floored).  A missile's speed and progress *)
(* are in millionths (1000000 = progress 1.0).  enemySpeedMultiplier is in *)
(* hundredths (100 = 1.0, +0.15 = +15).  An explosion's radius is kept as  *)
(* the exact numerator of the source's fraction: radius = e.radius /       *)
(* (e.duration / 2).  Distances are compared squared.  Of lastTime only    *)
(* "is it 0" is kept: 0 before the first frame, 1 after it.                *)
(*                                                                         *)
(* React.  gameState is React state: every handler (a frame of update, a   *)
(* click, a timer callback) reads the value of the last render and its     *)
(* setGameState calls take effect, last one winning, before the next       *)
(* handler runs.  The trail buffers, colours and ids are cosmetic and are  *)
(* left out.                                                               *)
(***************************************************************************)
EXTENDS Integers, Sequences, FiniteSets, TLC

VARIABLES
  gameState,    \* React state gameState
  s,            \* state.current, the mutable game state
  waveMessage,  \* React state waveMessage: <<>> for "", <<bonus>> for `+${bonus} Pts`
  timers,       \* pending setTimeout callbacks: remaining delay, and whether
                \* a session reset happened since the callback was scheduled
  lastOp,       \* history: the handler that ran last
  bonusCount,   \* history: wave bonuses awarded since the wave began
  steps         \* history: handlers run so far (bounds the exploration)

vars == <<gameState, s, waveMessage, timers, lastOp, bonusCount, steps>>

-----------------------------------------------------------------------------
(* Program constants *)

GAME_WIDTH == 800
GAME_HEIGHT == 600
GROUND_HEIGHT == 40
WIN_SCORE == 1000
AMMO_BONUS == 5
WAVE_DELAY == 3000
KILL_SCORE == 20
KILL_RADIUS == 35
PLAYER_SPEED == 20000
ONE == 1000 * 1000

(* Bounds of the exploration *)

MaxSteps == 5
MaxPlayerMissiles == 1
MaxEnemyMissiles == 2

-----------------------------------------------------------------------------
(* Small helpers *)

Max(a, b) == IF a >= b THEN a ELSE b

Range(f) == {f[i] : i \in DOMAIN f}

RECURSIVE SumSeq(_)
SumSeq(q) == IF q = <<>> THEN 0 ELSE Head(q) + SumSeq(Tail(q))

SelectActive(q) == SelectSeq(q, LAMBDA o : o.active)

\* distance(p1, p2) squared (the source takes the square root; every use is a
\* comparison against a non-negative length, which squares preserve)
distance2(p1, p2) ==
  (p2.x - p1.x) * (p2.x - p1.x) + (p2.y - p1.y) * (p2.y - p1.y)

-----------------------------------------------------------------------------
(* Entities *)

Tower(id, x, ammo) ==
  [id |-> id, x |-> x, y |-> GAME_HEIGHT - GROUND_HEIGHT + 10,
   active |-> TRUE, ammo |-> ammo, maxAmmo |-> ammo]

City(id, x) ==
  [id |-> id, x |-> x, y |-> GAME_HEIGHT - GROUND_HEIGHT + 15, active |-> TRUE]

Explosion(x, y, maxRadius, duration) ==
  [x |-> x, y |-> y, active |-> TRUE, radius |-> 0,
   maxRadius |-> maxRadius, duration |-> duration, age |-> 0]

InitialTowers ==
  << Tower(1, (GAME_WIDTH * 1) \div 10, 20),
     Tower(2, (GAME_WIDTH * 5) \div 10, 40),
     Tower(3, (GAME_WIDTH * 9) \div 10, 20) >>

InitialCities ==
  << City(1, (GAME_WIDTH * 2) \div 10), City(2, (GAME_WIDTH * 3) \div 10),
     City(3, (GAME_WIDTH * 4) \div 10), City(4, (GAME_WIDTH * 6) \div 10),
     City(5, (GAME_WIDTH * 7) \div 10), City(6, (GAME_WIDTH * 8) \div 10) >>

\* useRef({...}): the mutable game state at mount
MountState ==
  [towers |-> <<>>, cities |-> <<>>, playerMissiles |-> <<>>,
   enemyMissiles |-> <<>>, explosions |-> <<>>, lastTime |-> 0,
   spawnTimer |-> 0, spawnInterval |-> 2000, score |-> 0, wave |-> 1,
   enemiesToSpawn |-> 10, enemiesSpawned |-> 0, enemySpeedMultiplier |-> 100]

-----------------------------------------------------------------------------
(* initGame and startNextWave *)

\* a session reset that lands in the idle state instead of in play
initGame_toStart(st, resetScore) ==
  [s |-> [st EXCEPT !.score = 0, !.wave = 1, !.enemySpeedMultiplier = 100,
                    !.enemiesToSpawn = 10, !.towers = InitialTowers,
                    !.cities = InitialCities, !.playerMissiles = <<>>,
                    !.enemyMissiles = <<>>, !.explosions = <<>>,
                    !.spawnTimer = 0, !.enemiesSpawned = 0,
                    !.spawnInterval = 2300],
   gameState |-> "start"]

\* a session reset that forgets the speed multiplier
initGame_keepMultiplier(st, resetScore) ==
  [s |-> [st EXCEPT !.score = 0, !.wave = 1,
                    !.enemiesToSpawn = 10, !.towers = InitialTowers,
                    !.cities = InitialCities, !.playerMissiles = <<>>,
                    !.enemyMissiles = <<>>, !.explosions = <<>>,
                    !.spawnTimer = 0, !.enemiesSpawned = 0,
                    !.spawnInterval = 2300],
   gameState |-> "playing"]

\* initGame(resetScore): the new game state and the React state it sets
initGame(st, resetScore) ==
  LET a == IF resetScore
           THEN [st EXCEPT !.score = 0, !.wave = 1,
                           !.enemySpeedMultiplier = 100, !.enemiesToSpawn = 10]
           ELSE st
  IN [s |-> [a EXCEPT !.towers = InitialTowers,
                      !.cities = InitialCities,
                      !.playerMissiles = <<>>,
                      !.enemyMissiles = <<>>,
                      !.explosions = <<>>,
                      !.spawnTimer = 0,
                      !.enemiesSpawned = 0,
                      !.spawnInterval = Max(500, 2500 - a.wave * 200)],
      gameState |-> "playing"]

\* a wave transition that refills every tower, active or not
startNextWave_refillAll(st) ==
  LET w == st.wave + 1
  IN [s |-> [st EXCEPT !.wave = w,
                       !.enemySpeedMultiplier = @ + 15,
                       !.enemiesToSpawn = 10 + w * 2,
                       !.enemiesSpawned = 0,
                       !.spawnInterval = Max(400, 2500 - w * 150),
                       !.towers = [i \in DOMAIN st.towers |->
                                     [st.towers[i] EXCEPT !.ammo = st.towers[i].maxAmmo]],
                       !.playerMissiles = <<>>,
                       !.enemyMissiles = <<>>,
                       !.explosions = <<>>],
      gameState |-> "playing"]

\* a wave transition that rebuilds the towers as a session reset does
startNextWave_rebuild(st) ==
  LET w == st.wave + 1
  IN [s |-> [st EXCEPT !.wave = w,
                       !.enemySpeedMultiplier = @ + 15,
                       !.enemiesToSpawn = 10 + w * 2,
                       !.enemiesSpawned = 0,
                       !.spawnInterval = Max(400, 2500 - w * 150),
                       !.towers = [i \in DOMAIN st.towers |->
                                     [st.towers[i] EXCEPT !.active = TRUE,
                                                          !.ammo = st.towers[i].maxAmmo]],
                       !.playerMissiles = <<>>,
                       !.enemyMissiles = <<>>,
                       !.explosions = <<>>],
      gameState |-> "playing"]

\* startNextWave(): the new game state and the React state it sets
startNextWave(st) ==
  LET w == st.wave + 1
  IN [s |-> [st EXCEPT !.wave = w,
                       !.enemySpeedMultiplier = @ + 15,
                       !.enemiesToSpawn = 10 + w * 2,
                       !.enemiesSpawned = 0,
                       !.spawnInterval = Max(400, 2500 - w * 150),
                       !.towers = [i \in DOMAIN st.towers |->
                                     IF st.towers[i].active
                                     THEN [st.towers[i] EXCEPT !.ammo = st.towers[i].maxAmmo]
                                     ELSE st.towers[i]],
                       !.playerMissiles = <<>>,
                       !.enemyMissiles = <<>>,
                       !.explosions = <<>>],
      gameState |-> "playing"]

-----------------------------------------------------------------------------
(* update: one animation frame.  rnd holds the frame's Math.random() draws *)
(* that matter: startX, the target point and the speed of a spawned enemy. *)

EnemyMissile(st, rnd) ==
  [x |-> rnd.startX, y |-> 0, startX |-> rnd.startX, startY |-> 0,
   targetX |-> rnd.target.x, targetY |-> rnd.target.y, active |-> TRUE,
   speed |-> rnd.speedBase * st.enemySpeedMultiplier, progress |-> 0]

\* the branch "else if (s.enemyMissiles.length === 0 && s.explosions.length === 0)"
WaveComplete(st) ==
  /\ ~(st.enemiesSpawned < st.enemiesToSpawn)
  /\ Len(st.enemyMissiles) = 0
  /\ Len(st.explosions) = 0

\* a bonus that counts the ammo of destroyed towers too
AmmoBonus_allTowers(towers) ==
  SumSeq([i \in DOMAIN towers |-> towers[i].ammo * AMMO_BONUS])

\* bonus += t.ammo * AMMO_BONUS over the active towers
AmmoBonus(towers) ==
  SumSeq([i \in DOMAIN towers |->
            IF towers[i].active THEN towers[i].ammo * AMMO_BONUS ELSE 0])

\* a spawn that does not look at the budget of the wave
spawnEnemies_noBudget(st, dt, rnd) ==
  LET t == st.spawnTimer + dt
  IN IF t > st.spawnInterval
     THEN [st EXCEPT !.spawnTimer = 0,
                     !.enemiesSpawned = @ + 1,
                     !.enemyMissiles = Append(@, EnemyMissile(st, rnd))]
     ELSE IF WaveComplete(st)
     THEN [st EXCEPT !.score = @ + AmmoBonus(st.towers)]
     ELSE [st EXCEPT !.spawnTimer = t]

\* 1. Spawn Enemies / Wave Complete (the timer and the setState calls are in update)
spawnEnemies(st, dt, rnd) ==
  IF st.enemiesSpawned < st.enemiesToSpawn
  THEN LET t == st.spawnTimer + dt
       IN IF t > st.spawnInterval
          THEN [st EXCEPT !.spawnTimer = 0,
                          !.enemiesSpawned = @ + 1,
                          !.enemyMissiles = Append(@, EnemyMissile(st, rnd))]
          ELSE [st EXCEPT !.spawnTimer = t]
  ELSE IF WaveComplete(st)
       THEN [st EXCEPT !.score = @ + AmmoBonus(st.towers)]
       ELSE st

\* start + (target - start) * progress
Lerp(a, b, progress) == a + ((b - a) * progress) \div ONE

\* 2. Update Player Missiles
RECURSIVE updatePlayerMissiles(_, _, _)
updatePlayerMissiles(st, dt, i) ==
  IF i > Len(st.playerMissiles) THEN st
  ELSE LET m == st.playerMissiles[i]
           p == m.progress + m.speed * dt
           next ==
             IF ~m.active THEN st
             ELSE IF p >= ONE
             THEN [st EXCEPT
                     !.playerMissiles[i] = [m EXCEPT !.progress = p, !.active = FALSE],
                     !.explosions = Append(@, Explosion(m.targetX, m.targetY, 70, 1200))]
             ELSE [st EXCEPT
                     !.playerMissiles[i] =
                        [m EXCEPT !.progress = p,
                                  !.x = Lerp(m.startX, m.targetX, p),
                                  !.y = Lerp(m.startY, m.targetY, p)]]
       IN updatePlayerMissiles(next, dt, i + 1)

\* Check destruction: [...s.cities, ...s.towers].forEach, cities first
RECURSIVE destroyCities(_, _, _)
destroyCities(st, m, j) ==
  IF j > Len(st.cities) THEN st
  ELSE LET c == st.cities[j]
           next ==
             IF c.active /\ distance2(m, c) < KILL_RADIUS * KILL_RADIUS
             THEN [st EXCEPT !.cities[j].active = FALSE,
                             !.explosions = Append(@, Explosion(c.x, c.y, 50, 1000))]
             ELSE st
       IN destroyCities(next, m, j + 1)

RECURSIVE destroyTowers(_, _, _)
destroyTowers(st, m, j) ==
  IF j > Len(st.towers) THEN st
  ELSE LET t == st.towers[j]
           next ==
             IF t.active /\ distance2(m, t) < KILL_RADIUS * KILL_RADIUS
             THEN [st EXCEPT !.towers[j].active = FALSE,
                             !.explosions = Append(@, Explosion(t.x, t.y, 50, 1000))]
             ELSE st
       IN destroyTowers(next, m, j + 1)

\* 3. Update Enemy Missiles
RECURSIVE updateEnemyMissiles(_, _, _)
updateEnemyMissiles(st, dt, i) ==
  IF i > Len(st.enemyMissiles) THEN st
  ELSE LET m == st.enemyMissiles[i]
           p == m.progress + (m.speed * dt) \div 200
           moved == [m EXCEPT !.progress = p,
                              !.x = Lerp(m.startX, m.targetX, p),
                              !.y = Lerp(m.startY, m.targetY, p)]
           next ==
             IF ~m.active THEN st
             ELSE IF p >= ONE
             THEN LET hit == [st EXCEPT
                                !.enemyMissiles[i] = [moved EXCEPT !.active = FALSE],
                                !.explosions =
                                   Append(@, Explosion(moved.x, moved.y, 40, 800))]
                  IN destroyTowers(destroyCities(hit, moved, 1), moved, 1)
             ELSE [st EXCEPT !.enemyMissiles[i] = moved]
       IN updateEnemyMissiles(next, dt, i + 1)

\* an envelope that stays at maxRadius after the midpoint
Radius_noDecay(e, age) ==
  LET halfLife == e.duration \div 2
  IN IF age < halfLife
     THEN age * e.maxRadius
     ELSE halfLife * e.maxRadius

\* the triangular envelope, as the numerator over halfLife = duration / 2
Radius(e, age) ==
  LET halfLife == e.duration \div 2
  IN IF age < halfLife
     THEN age * e.maxRadius
     ELSE (halfLife - (age - halfLife)) * e.maxRadius

\* distance(m, e) < e.radius, with e.radius = e.radius / halfLife; no radius
\* exceeds 70, so a squared distance above 70 * 70 is outside every blast
InBlast(m, e) ==
  LET halfLife == e.duration \div 2
      d2 == distance2(m, e)
  IN /\ e.radius > 0
     /\ d2 <= 70 * 70
     /\ d2 * halfLife * halfLife < e.radius * e.radius

\* a collision that destroys the enemy missile without crediting it
RECURSIVE collideEnemies_noCredit(_, _, _)
collideEnemies_noCredit(st, e, j) ==
  IF j > Len(st.enemyMissiles) THEN st
  ELSE LET m == st.enemyMissiles[j]
           next ==
             IF m.active /\ InBlast(m, e)
             THEN [st EXCEPT !.enemyMissiles[j].active = FALSE,
                             !.explosions = Append(@, Explosion(m.x, m.y, 30, 600))]
             ELSE st
       IN collideEnemies_noCredit(next, e, j + 1)

\* a collision that credits the enemy missile and leaves it active
RECURSIVE collideEnemies_noDeactivate(_, _, _)
collideEnemies_noDeactivate(st, e, j) ==
  IF j > Len(st.enemyMissiles) THEN st
  ELSE LET m == st.enemyMissiles[j]
           next ==
             IF m.active /\ InBlast(m, e)
             THEN [st EXCEPT !.score = @ + KILL_SCORE,
                             !.explosions = Append(@, Explosion(m.x, m.y, 30, 600))]
             ELSE st
       IN collideEnemies_noDeactivate(next, e, j + 1)

\* Collision with enemies: s.enemyMissiles.forEach inside one explosion
RECURSIVE collideEnemies(_, _, _)
collideEnemies(st, e, j) ==
  IF j > Len(st.enemyMissiles) THEN st
  ELSE LET m == st.enemyMissiles[j]
           next ==
             IF m.active /\ InBlast(m, e)
             THEN [st EXCEPT !.enemyMissiles[j].active = FALSE,
                             !.score = @ + KILL_SCORE,
                             !.explosions = Append(@, Explosion(m.x, m.y, 30, 600))]
             ELSE st
       IN collideEnemies(next, e, j + 1)

\* 4. Update Explosions & Collisions: forEach visits the explosions present
\* when it starts (n of them), not those pushed while it runs
RECURSIVE updateExplosions(_, _, _, _)
updateExplosions(st, dt, i, n) ==
  IF i > n THEN st
  ELSE LET e == st.explosions[i]
           age == e.age + dt
           next ==
             IF ~e.active THEN st
             ELSE IF age > e.duration
             THEN [st EXCEPT !.explosions[i] = [e EXCEPT !.age = age, !.active = FALSE]]
             ELSE LET grown == [e EXCEPT !.age = age, !.radius = Radius(e, age)]
                  IN collideEnemies([st EXCEPT !.explosions[i] = grown], grown, 1)
       IN updateExplosions(next, dt, i + 1, n)

\* a cleanup that leaves the spent explosions in their list
cleanup_keepExplosions(st) ==
  [st EXCEPT !.playerMissiles = SelectActive(@),
             !.enemyMissiles = SelectActive(@)]

\* 5. Cleanup
cleanup(st) ==
  [st EXCEPT !.playerMissiles = SelectActive(@),
             !.enemyMissiles = SelectActive(@),
             !.explosions = SelectActive(@)]

ActiveTowers(st) == Len(SelectActive(st.towers))

\* an end-game check that looks at the score before the towers
checkEndGame_victoryFirst(st, gs, asked) ==
  IF st.score >= WIN_SCORE /\ gs = "playing" THEN "victory"
  ELSE IF ActiveTowers(st) = 0 THEN "defeat"
  ELSE asked

\* an end-game check that leaves victory to the end of the wave
checkEndGame_waitForWave(st, gs, asked) ==
  IF ActiveTowers(st) = 0 THEN "defeat"
  ELSE IF st.score >= WIN_SCORE /\ asked = "wave_complete" THEN "victory"
  ELSE asked

\* 6. Check End Game: the state the frame asks for, given the one asked so far
checkEndGame(st, gs, asked) ==
  IF ActiveTowers(st) = 0 THEN "defeat"
  ELSE IF st.score >= WIN_SCORE /\ gs = "playing" THEN "victory"
  ELSE asked

\* steps 1 to 5 of a frame in state playing
simulate(st, dt, rnd) ==
  LET s1 == spawnEnemies(st, dt, rnd)
      s2 == updatePlayerMissiles(s1, dt, 1)
      s3 == updateEnemyMissiles(s2, dt, 1)
      s4 == updateExplosions(s3, dt, 1, Len(s3.explosions))
  IN cleanup(s4)

\* a frame without the early return of the states other than playing
update_noEarlyReturn(st, gs, msg, elapsed, rnd) ==
  LET dt == IF st.lastTime = 0 THEN 0 ELSE elapsed
      timed == [st EXCEPT !.lastTime = 1]
      done == WaveComplete(timed)
      after == simulate(timed, dt, rnd)
  IN [s |-> after,
      gameState |-> checkEndGame(after, gs, IF done THEN "wave_complete" ELSE gs),
      scheduled |-> done,
      waveMessage |-> IF done THEN <<AmmoBonus(timed.towers)>> ELSE msg]

\* a frame that goes on simulating while the wave-complete message is shown
update_runsInWaveComplete(st, gs, msg, elapsed, rnd) ==
  LET dt == IF st.lastTime = 0 THEN 0 ELSE elapsed
      timed == [st EXCEPT !.lastTime = 1]
  IN IF gs \notin {"playing", "wave_complete"}
     THEN [s |-> timed, gameState |-> gs, scheduled |-> FALSE, waveMessage |-> msg]
     ELSE LET done == WaveComplete(timed)
              after == simulate(timed, dt, rnd)
          IN [s |-> after,
              gameState |-> checkEndGame(after, gs,
                                         IF done THEN "wave_complete" ELSE gs),
              scheduled |-> done,
              waveMessage |-> IF done THEN <<AmmoBonus(timed.towers)>> ELSE msg]

\* update(time): the new game state, the React state asked for, whether a
\* wave-complete callback was scheduled, and the message set
update(st, gs, msg, elapsed, rnd) ==
  LET dt == IF st.lastTime = 0 THEN 0 ELSE elapsed
      timed == [st EXCEPT !.lastTime = 1]
  IN IF gs # "playing"
     THEN [s |-> timed, gameState |-> gs, scheduled |-> FALSE, waveMessage |-> msg]
     ELSE LET done == WaveComplete(timed)
              after == simulate(timed, dt, rnd)
          IN [s |-> after,
              gameState |-> checkEndGame(after, gs,
                                         IF done THEN "wave_complete" ELSE gs),
              scheduled |-> done,
              waveMessage |-> IF done THEN <<AmmoBonus(timed.towers)>> ELSE msg]

-----------------------------------------------------------------------------
(* handleInput: a click or touch mapped to the play-field point (targetX, targetY) *)

\* a tower choice that does not look at the ammo
RECURSIVE bestTower_anyActive(_, _, _, _, _)
bestTower_anyActive(towers, target, i, best, minDist) ==
  IF i > Len(towers) THEN best
  ELSE LET t == towers[i]
           d == distance2(t, target)
       IN IF t.active /\ (best = 0 \/ d < minDist)
          THEN bestTower_anyActive(towers, target, i + 1, i, d)
          ELSE bestTower_anyActive(towers, target, i + 1, best, minDist)

\* a tower choice that does not look at the active flag
RECURSIVE bestTower_anyLoaded(_, _, _, _, _)
bestTower_anyLoaded(towers, target, i, best, minDist) ==
  IF i > Len(towers) THEN best
  ELSE LET t == towers[i]
           d == distance2(t, target)
       IN IF t.ammo > 0 /\ (best = 0 \/ d < minDist)
          THEN bestTower_anyLoaded(towers, target, i + 1, i, d)
          ELSE bestTower_anyLoaded(towers, target, i + 1, best, minDist)

\* Find closest tower with ammo: the index of bestTower, 0 for null
RECURSIVE bestTower(_, _, _, _, _)
bestTower(towers, target, i, best, minDist) ==
  IF i > Len(towers) THEN best
  ELSE LET t == towers[i]
           d == distance2(t, target)
       IN IF t.active /\ t.ammo > 0 /\ (best = 0 \/ d < minDist)
          THEN bestTower(towers, target, i + 1, i, d)
          ELSE bestTower(towers, target, i + 1, best, minDist)

PlayerMissile(t, target) ==
  [x |-> t.x, y |-> t.y - 30, startX |-> t.x, startY |-> t.y - 30,
   targetX |-> target.x, targetY |-> target.y, active |-> TRUE,
   speed |-> PLAYER_SPEED, progress |-> 0]

\* handleInput without the guard line under the ground
handleInput_noGuardLine(st, gs, target) ==
  IF gs # "playing" THEN st
  ELSE LET b == bestTower(st.towers, target, 1, 0, 0)
       IN IF b = 0 THEN st
          ELSE [st EXCEPT !.towers[b].ammo = @ - 1,
                          !.playerMissiles = Append(@, PlayerMissile(st.towers[b], target))]

handleInput(st, gs, target) ==
  IF gs # "playing" THEN st
  ELSE IF target.y > GAME_HEIGHT - GROUND_HEIGHT + 10 THEN st
  ELSE LET b == bestTower(st.towers, target, 1, 0, 0)
       IN IF b = 0 THEN st
          ELSE [st EXCEPT !.towers[b].ammo = @ - 1,
                          !.playerMissiles = Append(@, PlayerMissile(st.towers[b], target))]

\* the callback passed to setTimeout: the new game state and React state
waveTimeout(st, gs) ==
  IF st.score >= WIN_SCORE
  THEN [s |-> st, gameState |-> "victory"]
  ELSE startNextWave(st)

-----------------------------------------------------------------------------
(* Inputs *)

\* time between two animation frames
Elapsed == {500, 3000}

Point(x, y) == [x |-> x, y |-> y]

\* where the player clicks: above tower 2 in the path of an enemy, near
\* tower 1, and below the guard line
FireTargets == {Point(400, 285), Point(80, 300), Point(400, 580)}

\* the target of a handler that is not handleInput
NoTarget == Point(0, 0)

\* Math.random() draws of a spawn: startX, the target (an active structure,
\* or a point of the ground line) and the speed before the multiplier,
\* (0.03 + random * 0.02) in ten-thousandths
Structures(st) ==
  {Point(o.x, o.y) : o \in {c \in Range(st.cities) \cup Range(st.towers) : c.active}}

Draws(st) ==
  [startX : {GAME_WIDTH \div 2},
   target : Structures(st) \cup {Point(200, GAME_HEIGHT - GROUND_HEIGHT)},
   speedBase : {300, 480}]

NoDraw ==
  [startX |-> 0, target |-> Point(0, GAME_HEIGHT - GROUND_HEIGHT), speedBase |-> 300]

WillSpawn(st, gs, dt) ==
  /\ gs = "playing"
  /\ st.enemiesSpawned < st.enemiesToSpawn
  /\ st.spawnTimer + dt > st.spawnInterval

-----------------------------------------------------------------------------
(* Initial states: the mount, and sessions under way in wave 3.  Each of     *)
(* the latter is a state play reaches: a score below 1000 made of kills and  *)
(* of two wave bonuses, towers lost to impacts, enemies of wave 3 on their   *)
(* straight path, no callback pending (the last one fired when wave 3        *)
(* began), and the spawn timer at 0 as the last spawn left it.               *)

Fly(m, p) ==
  [m EXCEPT !.progress = p,
            !.x = Lerp(m.startX, m.targetX, p),
            !.y = Lerp(m.startY, m.targetY, p)]

\* the game state at the start of wave 3 of a session
Wave3 ==
  startNextWave(startNextWave(initGame([MountState EXCEPT !.lastTime = 1], TRUE).s).s).s

\* an enemy of wave 3 on its way down to tower 2 or tower 3
Incoming(towerX, p) ==
  Fly(EnemyMissile(Wave3, [startX |-> towerX,
                           target |-> Point(towerX, GAME_HEIGHT - GROUND_HEIGHT + 10),
                           speedBase |-> 300]), p)

FullTowers == InitialTowers

\* tower 2 alone, one round left
LastTower ==
  << [InitialTowers[1] EXCEPT !.active = FALSE, !.ammo = 5],
     [InitialTowers[2] EXCEPT !.ammo = 1],
     [InitialTowers[3] EXCEPT !.active = FALSE] >>

Snapshot(score, towers, enemies, left) ==
  [Wave3 EXCEPT !.score = score, !.towers = towers, !.enemyMissiles = enemies,
                !.enemiesSpawned = Wave3.enemiesToSpawn - left]

\* tower 2 has fired one round
OneFired == [InitialTowers EXCEPT ![2].ammo = @ - 1]

\* the explosion of a player missile, age ms after the impact
Detonation(x, y, age) ==
  LET e == Explosion(x, y, 70, 1200)
  IN [e EXCEPT !.age = age, !.radius = Radius(e, age)]

\* the wave resolved, far from and near to the winning score; the last
\* tower about to be hit by the last enemy; the 14th enemy in flight and the
\* 15th just spawned (more than spawnInterval of flight apart), near the
\* winning score; the last tower about to be hit with the last enemy behind;
\* the last enemy coming down on a detonation set off a frame ago below it
MidSession ==
  { Snapshot(500, LastTower, <<>>, 0),
    Snapshot(980, FullTowers, <<>>, 0),
    Snapshot(500, LastTower, << Incoming(400, 950000) >>, 0),
    Snapshot(980, FullTowers, << Incoming(400, 410000), Incoming(720, 3120) >>, 1),
    Snapshot(980, LastTower, << Incoming(400, 950000), Incoming(400, 400000) >>, 0),
    [Snapshot(500, OneFired, << Incoming(400, 410000) >>, 0)
       EXCEPT !.explosions = << Detonation(400, 300, 200) >>] }

Init ==
  /\ \/ gameState = "start" /\ s = MountState
     \/ gameState = "playing" /\ s \in MidSession
  /\ waveMessage = <<>>
  /\ timers = <<>>
  /\ lastOp = [op |-> "mount", from |-> gameState, flag |-> FALSE,
              dt |-> 0, target |-> NoTarget]
  /\ bonusCount = 0
  /\ steps = 0

-----------------------------------------------------------------------------
(* Actions: one per handler *)

RemoveAt(q, i) == [j \in 1..(Len(q) - 1) |-> IF j < i THEN q[j] ELSE q[j + 1]]

\* requestAnimationFrame(update): a frame, elapsed ms after the last one.  A
\* pending timer that comes due before the frame runs before it.
FrameStep(elapsed) ==
  LET dt == IF s.lastTime = 0 THEN 0 ELSE elapsed
  IN /\ \A i \in DOMAIN timers : timers[i].remaining >= dt
     /\ \E rnd \in IF WillSpawn(s, gameState, dt) THEN Draws(s) ELSE {NoDraw} :
          LET r == update(s, gameState, waveMessage, elapsed, rnd)
              aged == [i \in DOMAIN timers |->
                         [timers[i] EXCEPT !.remaining = @ - dt]]
          IN /\ s' = r.s
             /\ gameState' = r.gameState
             /\ waveMessage' = r.waveMessage
             /\ timers' = IF r.scheduled
                          THEN Append(aged, [remaining |-> WAVE_DELAY, stale |-> FALSE])
                          ELSE aged
             /\ lastOp' = [op |-> "update", from |-> gameState, flag |-> r.scheduled,
                           dt |-> dt, target |-> NoTarget]
             /\ bonusCount' = IF r.scheduled THEN bonusCount + 1 ELSE bonusCount

Frame(elapsed) ==
  LET dt == IF s.lastTime = 0 THEN 0 ELSE elapsed
  IN /\ steps < MaxSteps
     /\ WillSpawn(s, gameState, dt) => Len(s.enemyMissiles) < MaxEnemyMissiles
     /\ FrameStep(elapsed)
     /\ steps' = steps + 1

\* onMouseDown / onTouchStart on the canvas
FireStep(target) ==
  LET after == handleInput(s, gameState, target)
  IN /\ after # s => Len(s.playerMissiles) < MaxPlayerMissiles
     /\ s' = after
     /\ lastOp' = [op |-> "handleInput", from |-> gameState, flag |-> after # s,
                   dt |-> 0, target |-> target]
     /\ UNCHANGED <<gameState, waveMessage, timers, bonusCount>>

Fire(target) ==
  /\ steps < MaxSteps
  /\ FireStep(target)
  /\ steps' = steps + 1

\* onClick of the start button and of the restart button: initGame(true)
Restart ==
  /\ steps < MaxSteps
  /\ gameState \in {"start", "victory", "defeat"}
  /\ s' = initGame(s, TRUE).s
  /\ gameState' = initGame(s, TRUE).gameState
  /\ timers' = [i \in DOMAIN timers |-> [timers[i] EXCEPT !.stale = TRUE]]
  /\ lastOp' = [op |-> "initGame", from |-> gameState, flag |-> FALSE,
                dt |-> 0, target |-> NoTarget]
  /\ bonusCount' = 0
  /\ steps' = steps + 1
  /\ UNCHANGED waveMessage

\* the setTimeout callback of a wave-complete frame comes due
TimeoutStep(i) ==
  LET r == waveTimeout(s, gameState)
  IN /\ timers[i].remaining = 0
     /\ s' = r.s
     /\ gameState' = r.gameState
     /\ timers' = RemoveAt(timers, i)
     /\ lastOp' = [op |-> "timeout", from |-> gameState, flag |-> timers[i].stale,
                   dt |-> 0, target |-> NoTarget]
     /\ bonusCount' = IF r.s # s THEN 0 ELSE bonusCount
     /\ UNCHANGED waveMessage

Timeout(i) ==
  /\ steps < MaxSteps
  /\ TimeoutStep(i)
  /\ steps' = steps + 1

Next ==
  \/ \E elapsed \in Elapsed : Frame(elapsed)
  \/ \E target \in FireTargets : Fire(target)
  \/ Restart
  \/ \E i \in DOMAIN timers : Timeout(i)

Spec == Init /\ [][Next]_vars

-----------------------------------------------------------------------------
(* Wave 3 played to its end: the same handlers without the step bound and   *)
(* without a restart.  The frame loop re-arms itself in every frame          *)
(* (requestAnimationFrame at the end of update and in its early return), and *)
(* a timer that is set fires: both are weakly fair.  Clicks are up to the    *)
(* player.  The play stops when wave 4 begins.                               *)

\* the sessions with tower 2 alone and one round left, and one more of them
\* with the 15th enemy just launched at tower 2 and the 16th to come
LastStand ==
  {st \in MidSession : st.towers = LastTower}
    \cup {Snapshot(500, LastTower, << Incoming(400, 3120) >>, 1)}

LiveInit ==
  /\ gameState = "playing"
  /\ s \in LastStand
  /\ waveMessage = <<>>
  /\ timers = <<>>
  /\ lastOp = [op |-> "mount", from |-> gameState, flag |-> FALSE,
              dt |-> 0, target |-> NoTarget]
  /\ bonusCount = 0
  /\ steps = 0

\* a frame can run elapsed ms from now: no timer is due sooner, and wave 3
\* is not over
FrameReady(elapsed) ==
  /\ gameState = "playing" => s.wave = Wave3.wave
  /\ \A i \in DOMAIN timers : timers[i].remaining >= elapsed

\* steps is the parity of the frames run: a step changes it exactly when it
\* is a frame
LiveFrame(elapsed) ==
  /\ FrameReady(elapsed)
  /\ FrameStep(elapsed)
  /\ steps' = 1 - steps

LiveFire(target) == FireStep(target) /\ UNCHANGED steps

LiveTimeout(i) == TimeoutStep(i) /\ UNCHANGED steps

LiveNext ==
  \/ \E elapsed \in Elapsed : LiveFrame(elapsed)
  \/ \E target \in FireTargets : LiveFire(target)
  \/ \E i \in DOMAIN timers : LiveTimeout(i)

\* the frames seen through steps alone: a step of LiveNext changes steps
\* exactly when it is a LiveFrame step, and update is total, so a LiveFrame
\* step is possible exactly when FrameReady holds for some elapsed.  Weak
\* fairness of FrameTurn on steps is then weak fairness of the frames.
FrameTurn ==
  /\ \E elapsed \in Elapsed : FrameReady(elapsed)
  /\ steps' = 1 - steps

LiveSpec ==
  /\ LiveInit
  /\ [][LiveNext]_vars
  /\ WF_steps(FrameTurn)
  /\ WF_vars(\E i \in DOMAIN timers : LiveTimeout(i))

-----------------------------------------------------------------------------
(* Properties *)

\* the step is a frame of update run in state playing
PlayingFrame == lastOp'.op = "update" /\ gameState = "playing"

\* the game state without the frame clock
Session(st) == [st EXCEPT !.lastTime = 0]

\* C1: a wave-complete callback that fires after a restart leaves the new
\* session's wave, speed multiplier, spawn counters, tower ammo, missiles,
\* explosions and game state as they were just before it fired.
C1_StaleCallbackInert ==
  [][(lastOp'.op = "timeout" /\ lastOp'.flag)
       => /\ s'.wave = s.wave
          /\ s'.enemySpeedMultiplier = s.enemySpeedMultiplier
          /\ s'.enemiesToSpawn = s.enemiesToSpawn
          /\ s'.enemiesSpawned = s.enemiesSpawned
          /\ s'.towers = s.towers
          /\ s'.playerMissiles = s.playerMissiles
          /\ s'.enemyMissiles = s.enemyMissiles
          /\ s'.explosions = s.explosions
          /\ gameState' = gameState]_vars

\* C2 as claimed: the game state changes only along the edges of the spec,
\* a restart from victory or defeat landing in start.
ClaimedEdges ==
  { <<"start", "playing">>, <<"playing", "wave_complete">>,
    <<"wave_complete", "playing">>, <<"wave_complete", "victory">>,
    <<"playing", "victory">>, <<"playing", "defeat">>,
    <<"victory", "start">>, <<"defeat", "start">> }

C2_ClaimedEdges ==
  [][gameState' # gameState => <<gameState, gameState'>> \in ClaimedEdges]_vars

\* C2 as amended: the same edges, except that a restart from victory or
\* defeat lands in playing; start is never entered again.
ActualEdges ==
  { <<"start", "playing">>, <<"playing", "wave_complete">>,
    <<"wave_complete", "playing">>, <<"wave_complete", "victory">>,
    <<"playing", "victory">>, <<"playing", "defeat">>,
    <<"victory", "playing">>, <<"defeat", "playing">> }

C2_Edges ==
  [][/\ gameState' # gameState => <<gameState, gameState'>> \in ActualEdges
     /\ (lastOp'.op = "initGame" /\ gameState \in {"victory", "defeat"})
          => gameState' = "playing"]_vars

C2_Witness ==
  /\ lastOp.op = "initGame"
  /\ lastOp.from = "victory"
  /\ gameState = "playing"

\* C3: once in defeat, the state stays defeat and nothing of the game state
\* but the frame clock changes, until initGame runs.
C3_DefeatFrozen ==
  [][(gameState = "defeat" /\ lastOp'.op # "initGame")
       => /\ gameState' = "defeat"
          /\ Session(s') = Session(s)]_vars

C3_Witness ==
  /\ gameState = "defeat"
  /\ lastOp.from = "defeat"
  /\ lastOp.op = "update"

\* C4: a frame run in state playing ends in defeat exactly when no tower is
\* active after it, whatever the score.
C4_DefeatIff ==
  [][PlayingFrame => (gameState' = "defeat" <=> ActiveTowers(s') = 0)]_vars

C4_Witness ==
  /\ lastOp.op = "update"
  /\ lastOp.from = "playing"
  /\ gameState = "defeat"
  /\ s.score >= WIN_SCORE

\* C5: a frame run in state playing that ends with score >= 1000 and a tower
\* active ends in victory, with enemies in flight and spawns left or not.
C5_VictoryAtOnce ==
  [][(PlayingFrame /\ s'.score >= WIN_SCORE /\ ActiveTowers(s') >= 1)
       => gameState' = "victory"]_vars

C5_Witness ==
  /\ lastOp.op = "update"
  /\ lastOp.from = "playing"
  /\ ~lastOp.flag
  /\ gameState = "victory"
  /\ Len(s.enemyMissiles) > 0
  /\ Len(s.explosions) > 0
  /\ s.enemiesSpawned < s.enemiesToSpawn

\* C6: a frame run in state playing that finds the spawn budget used up, no
\* enemy missile and no explosion ends in wave_complete, whatever the score.
C6_WaveCompleteFirst ==
  [][(PlayingFrame /\ WaveComplete(s)) => gameState' = "wave_complete"]_vars

\* C7: the wave-complete frame adds 5 x (ammo of the active towers) to the
\* score, once per wave; the callback and the frames outside playing add
\* nothing.
ActiveAmmo(towers) ==
  SumSeq([i \in DOMAIN towers |-> IF towers[i].active THEN towers[i].ammo ELSE 0])

C7_BonusOnce ==
  [][/\ (PlayingFrame /\ WaveComplete(s))
          => /\ s'.score = s.score + 5 * ActiveAmmo(s.towers)
             /\ waveMessage' = << 5 * ActiveAmmo(s.towers) >>
     /\ (lastOp'.op = "timeout" \/ (lastOp'.op = "update" /\ gameState # "playing"))
          => s'.score = s.score
     /\ bonusCount' <= 1]_vars

C7_Witness ==
  /\ lastOp.op = "update"
  /\ lastOp.flag
  /\ \E i \in DOMAIN s.towers : ~s.towers[i].active /\ s.towers[i].ammo > 0
  /\ waveMessage = <<5>>
  /\ s.score = 505

\* C8: startNextWave adds 1 to wave, sets enemiesToSpawn to 10 + 2 x wave and
\* enemiesSpawned to 0, refills the active towers, empties the three
\* collections and sets the state to playing; score, cities and the inactive
\* towers stay as they were.
C8_NextWave ==
  [][(lastOp'.op = "timeout" /\ s.score < WIN_SCORE)
       => /\ s'.wave = s.wave + 1
          /\ s'.enemiesToSpawn = 10 + 2 * s'.wave
          /\ s'.enemiesSpawned = 0
          /\ DOMAIN s'.towers = DOMAIN s.towers
          /\ \A i \in DOMAIN s.towers :
               IF s.towers[i].active
               THEN s'.towers[i] = [s.towers[i] EXCEPT !.ammo = s.towers[i].maxAmmo]
               ELSE s'.towers[i] = s.towers[i]
          /\ s'.playerMissiles = <<>>
          /\ s'.enemyMissiles = <<>>
          /\ s'.explosions = <<>>
          /\ gameState' = "playing"
          /\ s'.score = s.score
          /\ s'.cities = s.cities]_vars

C8_Witness ==
  /\ lastOp.op = "timeout"
  /\ lastOp.from = "wave_complete"
  /\ gameState = "playing"
  /\ s.wave = 4
  /\ ~s.towers[1].active /\ s.towers[1].ammo = 5
  /\ s.towers[2].active /\ s.towers[2].ammo = 40

\* C9: initGame(true) yields score 0, wave 1, multiplier 1, 10 enemies to
\* spawn, none spawned, spawnTimer 0, three active towers with ammo = maxAmmo
\* = 20, 40, 20, six active cities, empty collections and state playing.
C9_FreshSession ==
  lastOp.op = "initGame"
    => /\ s.score = 0
       /\ s.wave = 1
       /\ s.enemySpeedMultiplier = 100
       /\ s.enemiesToSpawn = 10
       /\ s.enemiesSpawned = 0
       /\ s.spawnTimer = 0
       /\ Len(s.towers) = 3
       /\ \A i \in 1..3 : s.towers[i].active /\ s.towers[i].ammo = s.towers[i].maxAmmo
       /\ <<s.towers[1].ammo, s.towers[2].ammo, s.towers[3].ammo>> = <<20, 40, 20>>
       /\ Len(s.cities) = 6
       /\ \A i \in 1..6 : s.cities[i].active
       /\ s.playerMissiles = <<>>
       /\ s.enemyMissiles = <<>>
       /\ s.explosions = <<>>
       /\ gameState = "playing"

C9_Witness ==
  /\ lastOp.op = "initGame"
  /\ lastOp.from = "victory"
  /\ Len(timers) > 0

\* C10: every tower has 0 <= ammo <= maxAmmo in every reachable state.
C10_AmmoInRange ==
  \A i \in DOMAIN s.towers :
    s.towers[i].ammo >= 0 /\ s.towers[i].ammo <= s.towers[i].maxAmmo

C10_Witness ==
  /\ lastOp.op = "handleInput"
  /\ lastOp.from = "playing"
  /\ ~lastOp.flag
  /\ \A i \in DOMAIN s.towers : s.towers[i].active => s.towers[i].ammo = 0
  /\ ActiveTowers(s) > 0

\* the secondary explosions of the frame that led to st: they are pushed
\* while the explosions are updated, so the frame does not age them
Secondaries(st) ==
  {i \in DOMAIN st.explosions :
     st.explosions[i].maxRadius = 30 /\ st.explosions[i].age = 0}

\* C11: within a session the score never decreases; a frame of play changes
\* it by 20 per enemy missile destroyed by an explosion, or by the wave
\* bonus; firing, the callback and the frames outside playing (and with them
\* spawns, impacts and destroyed structures, which have no term) leave it.
C11_ScoreSources ==
  [][lastOp'.op # "initGame"
       => /\ s'.score >= s.score
          /\ s'.score - s.score =
               IF PlayingFrame /\ WaveComplete(s)
               THEN AmmoBonus(s.towers)
               ELSE IF PlayingFrame /\ lastOp'.dt > 0
               THEN KILL_SCORE * Cardinality(Secondaries(s'))
               ELSE 0]_vars

C11_Witness ==
  /\ lastOp.op = "update"
  /\ lastOp.from = "playing"
  /\ Cardinality(Secondaries(s)) = 1
  /\ \E i \in DOMAIN s.towers : ~s.towers[i].active
  /\ s.score = 1000

\* the towers that can fire, and whether the click in lastOp' is accepted
Loaded(towers) == {i \in DOMAIN towers : towers[i].active /\ towers[i].ammo > 0}

Accepted ==
  /\ lastOp'.op = "handleInput"
  /\ gameState = "playing"
  /\ lastOp'.target.y <= 570
  /\ Loaded(s.towers) # {}

\* C12: an accepted click picks, among the active towers with ammo, one at
\* minimal distance from the target, takes 1 from the ammo of that tower
\* alone, and appends one active player missile with progress 0, from
\* (tower.x, tower.y - 30) to the target; the rest of the game state stays.
C12_FireNearestLoaded ==
  [][Accepted
       => \E b \in Loaded(s.towers) :
            LET t == s.towers[b]
                to == lastOp'.target
                m == s'.playerMissiles[Len(s'.playerMissiles)]
            IN /\ \A j \in Loaded(s.towers) :
                    distance2(t, to) <= distance2(s.towers[j], to)
               /\ s'.towers = [s.towers EXCEPT ![b].ammo = t.ammo - 1]
               /\ Len(s'.playerMissiles) = Len(s.playerMissiles) + 1
               /\ SubSeq(s'.playerMissiles, 1, Len(s.playerMissiles)) = s.playerMissiles
               /\ m.active /\ m.progress = 0
               /\ <<m.x, m.y>> = <<t.x, t.y - 30>>
               /\ <<m.startX, m.startY>> = <<t.x, t.y - 30>>
               /\ <<m.targetX, m.targetY>> = <<to.x, to.y>>
               /\ s' = [s EXCEPT !.towers = s'.towers,
                                 !.playerMissiles = s'.playerMissiles]
               /\ gameState' = gameState]_vars

\* the nearest tower is destroyed with ammo left, and tower 2 fired
C12_Witness ==
  /\ lastOp.op = "handleInput"
  /\ lastOp.flag
  /\ lastOp.target = Point(80, 300)
  /\ ~s.towers[1].active /\ s.towers[1].ammo = 5
  /\ s.towers[2].ammo = 0
  /\ Len(s.playerMissiles) = 1

\* C13: a click is a no-op, the whole game state unchanged, when the state
\* is not playing, when targetY > 570, or when no active tower has ammo.
C13_FireNoOp ==
  [][(lastOp'.op = "handleInput" /\ ~Accepted)
       => s' = s /\ gameState' = gameState /\ waveMessage' = waveMessage
                 /\ timers' = timers]_vars

\* a click under the guard line with towers ready to fire
C13_Witness ==
  /\ lastOp.op = "handleInput"
  /\ lastOp.from = "playing"
  /\ lastOp.target.y > 570
  /\ ~lastOp.flag
  /\ Cardinality(Loaded(s.towers)) = 3

\* the explosions of st with the given size at the given point
BlastsAt(st, x, y, maxRadius, duration) ==
  {i \in DOMAIN st.explosions :
     /\ st.explosions[i].maxRadius = maxRadius
     /\ st.explosions[i].duration = duration
     /\ st.explosions[i].x = x
     /\ st.explosions[i].y = y}

\* C14: progress is never negative, and the frame that takes a missile's
\* progress to 1 or more removes it and creates one impact explosion at
\* exactly the missile's target point: 70 / 1200 for a player missile,
\* 40 / 800 for an enemy missile (seen after the frame while dt does not
\* exceed the duration).
C14_ImpactAtTarget ==
  [][PlayingFrame
       => LET dt == lastOp'.dt
          IN /\ \A i \in DOMAIN s'.playerMissiles : s'.playerMissiles[i].progress >= 0
             /\ \A i \in DOMAIN s'.enemyMissiles : s'.enemyMissiles[i].progress >= 0
             /\ \A i \in DOMAIN s.playerMissiles :
                  LET m == s.playerMissiles[i]
                  IN (m.progress + m.speed * dt >= ONE /\ dt <= 1200)
                       => Cardinality(BlastsAt(s', m.targetX, m.targetY, 70, 1200)) = 1
             /\ \A i \in DOMAIN s.enemyMissiles :
                  LET m == s.enemyMissiles[i]
                  IN (m.progress + (m.speed * dt) \div 200 >= ONE /\ dt <= 800)
                       => Cardinality(BlastsAt(s', m.targetX, m.targetY, 40, 800)) = 1]_vars

\* the enemy missiles of st that a frame of dt takes to progress 1 or more
Impacting(st, dt) ==
  {i \in DOMAIN st.enemyMissiles :
     st.enemyMissiles[i].progress + (st.enemyMissiles[i].speed * dt) \div 200 >= ONE}

\* the structure o is active and less than 35 from the impact point (the
\* target point) of an enemy missile that impacts in the frame
Struck(st, dt, o) ==
  /\ o.active
  /\ \E i \in Impacting(st, dt) :
       LET m == st.enemyMissiles[i]
       IN distance2(Point(m.targetX, m.targetY), o) < 35 * 35

\* the debris explosions that the frame of dt created at o
DebrisAt(st, dt, o) ==
  {i \in BlastsAt(st, o.x, o.y, 50, 1000) : st.explosions[i].age = dt}

\* C15: the frame in which enemy missiles impact deactivates every active
\* city and tower less than 35 from an impact point and gives each one
\* debris explosion (50 / 1000) at its own position; the structures at 35 or
\* more and the inactive ones stay as they were, without debris.
C15_KillRadius ==
  [][PlayingFrame
       => LET dt == lastOp'.dt
          IN /\ \A j \in DOMAIN s.cities :
                  LET c == s.cities[j]
                  IN /\ s'.cities[j] = [c EXCEPT !.active = c.active /\ ~Struck(s, dt, c)]
                     /\ dt <= 1000 =>
                          Cardinality(DebrisAt(s', dt, c)) =
                            IF Struck(s, dt, c) THEN 1 ELSE 0
             /\ \A j \in DOMAIN s.towers :
                  LET t == s.towers[j]
                  IN /\ s'.towers[j] = [t EXCEPT !.active = t.active /\ ~Struck(s, dt, t)]
                     /\ dt <= 1000 =>
                          Cardinality(DebrisAt(s', dt, t)) =
                            IF Struck(s, dt, t) THEN 1 ELSE 0]_vars

\* the enemy missiles in flight in a frame of dt with the draws rnd, after
\* the spawn and the move
InFlight(st, gs, dt, rnd) ==
  LET flying == IF WillSpawn(st, gs, dt)
                THEN Append(st.enemyMissiles, EnemyMissile(st, rnd))
                ELSE st.enemyMissiles
  IN [i \in DOMAIN flying |->
        Fly(flying[i], flying[i].progress + (flying[i].speed * dt) \div 200)]

\* C16: an enemy missile is credited at most once: a frame's score rises by
\* 20 per enemy missile that an explosion destroyed, with one secondary
\* explosion (30 / 600) at the position of each, however many explosions
\* cover it; the missiles that impact in the frame are not credited, and a
\* destroyed or impacted missile is gone after the frame.
C16_CreditOnce ==
  [][(PlayingFrame /\ ~WaveComplete(s))
       => \E rnd \in IF WillSpawn(s, gameState, lastOp'.dt) THEN Draws(s) ELSE {NoDraw} :
            LET dt == lastOp'.dt
                flight == InFlight(s, gameState, dt, rnd)
                impacted == {i \in DOMAIN flight : flight[i].progress >= ONE}
                left == {i \in DOMAIN flight :
                           \E k \in DOMAIN s'.enemyMissiles : s'.enemyMissiles[k] = flight[i]}
                destroyed == DOMAIN flight \ (impacted \cup left)
            IN /\ impacted \cap left = {}
               /\ Cardinality(left) = Len(s'.enemyMissiles)
               /\ s'.score = s.score + 20 * Cardinality(destroyed)
               /\ Cardinality(Secondaries(s')) = Cardinality(destroyed)
               /\ \A i \in destroyed :
                    Cardinality(BlastsAt(s', flight[i].x, flight[i].y, 30, 600)
                                  \cap Secondaries(s')) = 1]_vars

\* one enemy missile destroyed in a frame in which two explosions cover it
C16_Witness ==
  /\ lastOp.op = "update"
  /\ lastOp.from = "playing"
  /\ Cardinality(Secondaries(s)) = 1
  /\ s.score = 520
  /\ \E k \in Secondaries(s) :
       \E i, j \in DOMAIN s.explosions \ Secondaries(s) :
          /\ i # j
          /\ InBlast(s.explosions[k], s.explosions[i])
          /\ InBlast(s.explosions[k], s.explosions[j])

SpawnBudget(st) == 0 <= st.enemiesSpawned /\ st.enemiesSpawned <= st.enemiesToSpawn

\* C17: 0 <= enemiesSpawned <= enemiesToSpawn in every state; a frame of
\* play launches at most one enemy missile, and only when enemiesSpawned <
\* enemiesToSpawn and spawnTimer + dt > spawnInterval; the launch adds 1 to
\* enemiesSpawned and sets spawnTimer to 0; clicks and the frames outside
\* playing launch nothing.
C17_SpawnBudget ==
  [][/\ SpawnBudget(s) /\ SpawnBudget(s')
     /\ PlayingFrame
          => LET t == s.spawnTimer + lastOp'.dt
                 open == s.enemiesSpawned < s.enemiesToSpawn
                 launch == open /\ t > s.spawnInterval
             IN /\ s'.enemiesSpawned = s.enemiesSpawned + (IF launch THEN 1 ELSE 0)
                /\ s'.spawnTimer = IF launch THEN 0 ELSE IF open THEN t ELSE s.spawnTimer
                /\ Len(s'.enemyMissiles) <= Len(s.enemyMissiles) + (IF launch THEN 1 ELSE 0)
                /\ s'.enemiesToSpawn = s.enemiesToSpawn
     /\ (lastOp'.op = "handleInput" \/ (lastOp'.op = "update" /\ gameState # "playing"))
          => /\ s'.enemiesSpawned = s.enemiesSpawned
             /\ s'.spawnTimer = s.spawnTimer
             /\ s'.enemyMissiles = s.enemyMissiles]_vars

\* the first launch of a session, by the first frame that takes the timer
\* past the interval
C17_Witness ==
  /\ lastOp.op = "update"
  /\ lastOp.dt = 3000
  /\ s.wave = 1
  /\ s.enemiesSpawned = 1
  /\ s.spawnTimer = 0
  /\ Len(s.enemyMissiles) = 1

\* C18: within a session a structure that is inactive stays inactive, and an
\* inactive tower keeps its ammo: no frame, click or wave-complete callback
\* (bonus and next wave included) changes it; only initGame restores it.
C18_DestroyedForGood ==
  [][lastOp'.op # "initGame"
       => /\ DOMAIN s'.towers = DOMAIN s.towers
          /\ DOMAIN s'.cities = DOMAIN s.cities
          /\ \A i \in DOMAIN s.towers :
               ~s.towers[i].active => s'.towers[i] = s.towers[i]
          /\ \A i \in DOMAIN s.cities :
               ~s.cities[i].active => s'.cities[i] = s.cities[i]]_vars

\* the next wave has begun, tower 2 refilled and the destroyed tower 3 as it was
C18_Witness ==
  /\ lastOp.op = "timeout"
  /\ s.wave = Wave3.wave + 1
  /\ s.towers[2].active /\ s.towers[2].ammo = s.towers[2].maxAmmo
  /\ ~s.towers[3].active /\ s.towers[3].ammo = 20
  /\ s.enemiesSpawned = 0

\* the triangle over [0, duration] with its peak maxRadius at duration / 2,
\* as a numerator over duration / 2: it rises up to the midpoint and falls
\* after it
Tent(e, age) ==
  (IF age <= e.duration - age THEN age ELSE e.duration - age) * e.maxRadius

\* C19: for 0 <= age <= duration the radius of an explosion is 0 at age 0,
\* maxRadius at duration / 2 and 0 at duration, does not decrease before the
\* midpoint nor increase after it, and lies in [0, maxRadius]; the first
\* frame that takes the age past the duration removes the explosion, and no
\* frame removes it sooner.
C19_Envelope ==
  [][/\ \A i \in DOMAIN s'.explosions :
          LET e == s'.explosions[i]
          IN /\ e.active
             /\ 0 <= e.age /\ e.age <= e.duration
             /\ e.radius = Tent(e, e.age)
             /\ 0 <= e.radius /\ e.radius <= e.maxRadius * (e.duration \div 2)
             /\ e.age = 0 => e.radius = 0
             /\ e.age = e.duration => e.radius = 0
             /\ 2 * e.age = e.duration => e.radius = e.maxRadius * (e.duration \div 2)
     /\ PlayingFrame
          => \A i \in DOMAIN s.explosions :
               LET e == s.explosions[i]
                   age == e.age + lastOp'.dt
                   later == {k \in DOMAIN s'.explosions :
                               s'.explosions[k] = [e EXCEPT !.age = age,
                                                            !.radius = s'.explosions[k].radius]}
                   twins == {k \in DOMAIN s.explosions : s.explosions[k] = e}
               IN IF age > e.duration
                  THEN later = {}
                  ELSE /\ Cardinality(later) = Cardinality(twins)
                       /\ \A k \in later :
                            /\ 2 * age <= e.duration => s'.explosions[k].radius >= e.radius
                            /\ 2 * e.age >= e.duration => s'.explosions[k].radius <= e.radius]_vars

\* an explosion in its last frame, age = duration and radius 0, next to a
\* younger one
C19_Witness ==
  /\ lastOp.op = "update"
  /\ lastOp.from = "playing"
  /\ \E i, j \in DOMAIN s.explosions :
       /\ s.explosions[i].age = s.explosions[i].duration
       /\ s.explosions[i].radius = 0
       /\ s.explosions[j].age < s.explosions[j].duration
       /\ s.explosions[j].radius > 0

\* C20: while frames keep coming with dt > 0 and nobody restarts, a wave in
\* play ends in wave_complete, victory or defeat, and from wave_complete the
\* callback leads on to playing or victory.
C20_WaveEnds ==
  /\ (gameState = "playing" /\ s.wave = Wave3.wave)
       ~> gameState \in {"wave_complete", "victory", "defeat"}
  /\ (gameState = "wave_complete") ~> gameState \in {"playing", "victory"}

\* wave 3 ended with the last enemy shot down by the last round, and the
\* callback began wave 4
C20_Witness ==
  /\ lastOp.op = "timeout"
  /\ lastOp.from = "wave_complete"
  /\ gameState = "playing"
  /\ s.wave = Wave3.wave + 1
  /\ s.score = 520
  /\ ActiveTowers(s) = 1

\* the active structures of st at the point (x, y)
StandingAt(st, x, y) ==
  {o \in Range(st.cities) \cup Range(st.towers) : o.active /\ o.x = x /\ o.y = y}

\* C21: whatever dt, an enemy missile whose target is the position of an
\* active structure deactivates that structure in the frame that takes its
\* progress to 1 or more: no structure standing at the target of an
\* impacting missile is active after the frame.
C21_TargetDestroyed ==
  [][PlayingFrame
       => \E rnd \in IF WillSpawn(s, gameState, lastOp'.dt) THEN Draws(s) ELSE {NoDraw} :
            LET flight == InFlight(s, gameState, lastOp'.dt, rnd)
            IN \A i \in DOMAIN flight :
                 flight[i].progress >= ONE
                   => \A o \in StandingAt(s, flight[i].targetX, flight[i].targetY) :
                        StandingAt(s', o.x, o.y) = {}]_vars

\* C22: a frame run in state start, wave_complete, victory or defeat changes
\* nothing but lastTime: no spawn, no move of a missile or an explosion, no
\* collision, score and spawn counters as before, no change of the game
\* state or the message, and no callback scheduled (the pending ones only
\* come nearer).
C22_IdleFrame ==
  [][(lastOp'.op = "update" /\ gameState # "playing")
       => /\ gameState \in {"start", "wave_complete", "victory", "defeat"}
          /\ s' = [s EXCEPT !.lastTime = s'.lastTime]
          /\ gameState' = gameState
          /\ waveMessage' = waveMessage
          /\ ~lastOp'.flag
          /\ bonusCount' = bonusCount
          /\ Len(timers') = Len(timers)
          /\ \A i \in DOMAIN timers :
               timers'[i] = [timers[i] EXCEPT !.remaining = @ - lastOp'.dt]]_vars

\* a frame while the wave-complete message is shown and the callback waits
C22_Witness ==
  /\ lastOp.op = "update"
  /\ lastOp.from = "wave_complete"
  /\ lastOp.dt = 500
  /\ gameState = "wave_complete"
  /\ Len(timers) = 1
  /\ timers[1].remaining = WAVE_DELAY - 500
  /\ waveMessage # <<>>

====
